---- MODULE Spec2Model ----
(***************************************************************************)
(* The concurrent load-test harness of src/test-concurrent.py:             *)
(* run_command (one invocation task) and run_concurrent_tests (the batch   *)
(* loop, the gather barrier and the aggregation).                          *)
(***************************************************************************)
EXTENDS Integers, Sequences, FiniteSets

\* Largest --total and --concurrent drawn at the start of a run.
MaxRequests == 3
MaxConcurrent == 2

\* failed[:3], the number of error samples printed.
SampleSize == 3

\* Python's None.
None == "None"

\* The values argparse can hand over (type=int: zero and negatives included).
RequestCounts == (0 - 2)..MaxRequests
ConcurrencyLimits == (0 - 2)..MaxConcurrent

\* time.time() differences measured by run_command, in clock ticks.
Durations == {1, 2}

\* What `nexsock status ferric_api` can do once it runs: its exit status and
\* the bytes on its two pipes ("" is the empty bytes object).
ProcessBehaviours ==
    { [returncode |-> 0, stdout |-> "out", stderr |-> ""],
      [returncode |-> 0, stdout |-> "out", stderr |-> "warn"],
      [returncode |-> 1, stdout |-> "",    stderr |-> "err"],
      [returncode |-> 1, stdout |-> "",    stderr |-> ""] }

VARIABLES
    num_concurrent,  \* argument of run_concurrent_tests
    num_requests,    \* argument of run_concurrent_tests
    pc,              \* position of the coordinating coroutine
    fault,           \* exception that ended the run, or None
    rangeIdx,        \* number of items the for loop has taken from range()
    batch,           \* loop variable: offset of the current batch
    tasks,           \* the awaitables handed to asyncio.gather, in order
    results,         \* the list `results`
    printed,         \* the n of every "Completed n/total requests" line
    summary,         \* what the "Test Results" block prints
    procs,           \* session ids whose OS process is alive
    startedIds,      \* session ids whose run_command has begun to run
    faulted,         \* session ids whose run_command took its except branch
    numStarted,      \* number of run_command bodies that have begun to run
    batches,         \* the session ids handed to run_command, batch by batch
    completions,     \* what the run_commands of the batch gather was last
                     \* given returned, in order of return
    returned         \* what every run_command returned, by session id

vars == << num_concurrent, num_requests, pc, fault, rangeIdx, batch, tasks,
           results, printed, summary, procs, startedIds, faulted, numStarted,
           batches, completions, returned >>

----------------------------------------------------------------------------
\* Python builtins used by the loop.

Min(a, b) == IF a <= b THEN a ELSE b

\* RangeLen with the quotient rounded down: a partial last step is lost.
RangeLenFloor(start, stop, step) ==
    IF step > 0
    THEN IF stop > start THEN (stop - start) \div step ELSE 0
    ELSE IF start > stop THEN (start - stop) \div (0 - step) ELSE 0

\* len(range(start, stop, step)) for step # 0.
RangeLen(start, stop, step) ==
    IF step > 0
    THEN IF stop > start THEN (stop - start + step - 1) \div step ELSE 0
    ELSE IF start > stop THEN (start - stop - step - 1) \div (0 - step) ELSE 0

\* range(start, stop, step) as the sequence of its items.
PyRange(start, stop, step) ==
    [k \in 1..RangeLen(start, stop, step) |-> start + (k - 1) * step]

\* range(n): empty for n <= 0.
RangeN(n) == PyRange(0, n, 1)

----------------------------------------------------------------------------
\* run_command

\* OkResult keeping stderr only when the exit status is non-zero.
OkResultErrorOnFailure(session_id, b, d) ==
    [ session_id |-> session_id,
      success    |-> (b.returncode = 0),
      duration   |-> d,
      output     |-> IF b.stdout # "" THEN b.stdout ELSE None,
      error      |-> IF b.returncode # 0 /\ b.stderr # ""
                     THEN b.stderr ELSE None ]

\* The dictionary returned on the normal path.
OkResult(session_id, b, d) ==
    [ session_id |-> session_id,
      success    |-> (b.returncode = 0),
      duration   |-> d,
      output     |-> IF b.stdout # "" THEN b.stdout ELSE None,
      error      |-> IF b.stderr # "" THEN b.stderr ELSE None ]

\* The dictionary returned by the except branch; e is str(e).
FaultResult(session_id, e, d) ==
    [ session_id |-> session_id,
      success    |-> FALSE,
      duration   |-> d,
      output     |-> None,
      error      |-> e ]

\* One return of run_command: the exit status and stderr bytes it saw (no
\* exit status and no bytes on the except branch) and the dictionary it
\* returned.
Completion(returncode, stderr, result) ==
    [ returncode |-> returncode, stderr |-> stderr, result |-> result ]

\* The except branch is taken without an exit status having been read.
NoExit == 0 - 1

\* The log of returns by session id, with return c added to it.
Recorded(log, c) ==
    LET x == c.result.session_id
    IN [y \in DOMAIN log \cup {x} |->
           IF y # x THEN log[y]
           ELSE IF x \in DOMAIN log THEN Append(log[x], c) ELSE << c >>]

\* A task that has not returned yet holds no result.
NoResult == [ session_id |-> 0 - 1, success |-> FALSE, duration |-> 0,
              output |-> None, error |-> None ]

\* A coroutine object created by the list comprehension, not yet running.
NewTask(session_id) ==
    [ session_id |-> session_id, state |-> "pending", result |-> NoResult ]

----------------------------------------------------------------------------
\* run_concurrent_tests

\* BatchSize without the min: the whole remainder in one batch.
BatchSizeWholeRemainder(c, n, b) == n - b

\* BatchSize without the remainder: a full batch even at the end.
BatchSizeAlwaysFull(c, n, b) == c

\* BatchSize on the magnitudes of its arguments.
BatchSizeAbs(c, n, b) ==
    Min(IF c < 0 THEN 0 - c ELSE c, IF n - b < 0 THEN b - n ELSE n - b)

\* batch_size = min(num_concurrent, num_requests - batch)
BatchSize(c, n, b) == Min(c, n - b)

\* MakeTasks numbering each batch from zero.
MakeTasksPerBatchIndex(b, size) ==
    [k \in 1..Len(RangeN(size)) |-> NewTask(RangeN(size)[k])]

\* tasks = [run_command(i + batch) for i in range(batch_size)]
MakeTasks(b, size) ==
    [k \in 1..Len(RangeN(size)) |-> NewTask(RangeN(size)[k] + b)]

\* GatherDone as a wait for the first completion only.
GatherFirstCompleted(ts) == \E k \in 1..Len(ts) : ts[k].state = "done"

\* GatherDone as a barrier that opens only for a batch without failures.
GatherDoneAllSucceeded(ts) ==
    \A k \in 1..Len(ts) : ts[k].state = "done" /\ ts[k].result.success

\* asyncio.gather(*tasks) resumes its awaiter once every awaitable is done.
GatherDone(ts) == \A k \in 1..Len(ts) : ts[k].state = "done"

\* GatherResults losing the last result of the batch.
GatherResultsDropLast(ts) == [k \in 1..Len(ts) - 1 |-> ts[k].result]

\* GatherResults in the order in which the tasks returned.
GatherResultsAsCompleted(ts) ==
    [k \in 1..Len(ts) |->
        completions[Len(completions) - Len(ts) + k].result]

\* The list gather returns: the results in the order of its arguments.
GatherResults(ts) == [k \in 1..Len(ts) |-> ts[k].result]

\* Progress without the min: a partial last batch is reported as full.
ProgressNoMin(b, c, n) == b + c

\* min(batch + num_concurrent, num_requests) of the progress line.
Progress(b, c, n) == Min(b + c, n)

\* successful = [r for r in results if r['success']]
Successful(rs) == SelectSeq(rs, LAMBDA r : r.success)

\* Failed read off the error text instead of the success flag.
FailedByErrorText(rs) == SelectSeq(rs, LAMBDA r : r.error # None)

\* failed = [r for r in results if not r['success']]
Failed(rs) == SelectSeq(rs, LAMBDA r : ~r.success)

\* sum(durations), durations = [r['duration'] for r in results]
RECURSIVE SumDurations(_)
SumDurations(rs) ==
    IF rs = << >> THEN 0 ELSE Head(rs).duration + SumDurations(Tail(rs))

\* MaxDuration taken over the successful results only, 0 when there is none.
MaxDurationOfSuccessful(rs) ==
    IF Successful(rs) = << >> THEN 0
    ELSE CHOOSE d \in {Successful(rs)[k].duration : k \in 1..Len(Successful(rs))} :
            \A k \in 1..Len(Successful(rs)) : Successful(rs)[k].duration <= d

\* max_duration = max(durations)
MaxDuration(rs) ==
    CHOOSE d \in {rs[k].duration : k \in 1..Len(rs)} :
        \A k \in 1..Len(rs) : rs[k].duration <= d

\* min_duration = min(durations)
MinDuration(rs) ==
    CHOOSE d \in {rs[k].duration : k \in 1..Len(rs)} :
        \A k \in 1..Len(rs) : d <= rs[k].duration

\* ErrorSamples taking the last failures instead of the first.
ErrorSamplesLast(rs) ==
    SubSeq(Failed(rs), Len(Failed(rs)) - Min(SampleSize, Len(Failed(rs))) + 1,
           Len(Failed(rs)))

\* failed[:3]
ErrorSamples(rs) == SubSeq(Failed(rs), 1, Min(SampleSize, Len(Failed(rs))))

\* sum(durations) / len(durations) raises ZeroDivisionError on an empty list.
AggregationFaults(rs) == Len(rs) = 0

NoSummary ==
    [ successful |-> 0 - 1, failed |-> 0 - 1, sum_duration |-> 0, count |-> 0,
      max_duration |-> 0, min_duration |-> 0, samples |-> << >> ]

\* The figures of the "Test Results" block; avg_duration is
\* sum_duration / count.
Summarise(rs) ==
    [ successful   |-> Len(Successful(rs)),
      failed       |-> Len(Failed(rs)),
      sum_duration |-> SumDurations(rs),
      count        |-> Len(rs),
      max_duration |-> MaxDuration(rs),
      min_duration |-> MinDuration(rs),
      samples      |-> ErrorSamples(rs) ]

----------------------------------------------------------------------------

\* The state in which run_concurrent_tests is entered.
Entered ==
    /\ pc = "start"
    /\ fault = None
    /\ rangeIdx = 0
    /\ batch = 0
    /\ tasks = << >>
    /\ results = << >>
    /\ printed = << >>
    /\ summary = NoSummary
    /\ procs = {}
    /\ startedIds = {}
    /\ faulted = {}
    /\ numStarted = 0
    /\ batches = << >>
    /\ completions = << >>
    /\ returned = << >>

Init ==
    /\ num_concurrent \in ConcurrencyLimits
    /\ num_requests \in RequestCounts
    /\ Entered

\* results = []; range(0, num_requests, num_concurrent) is evaluated once,
\* and raises ValueError when the step is zero.
EnterLoop ==
    /\ pc = "start"
    /\ IF num_concurrent = 0
       THEN /\ pc' = "error"
            /\ fault' = "ValueError"
       ELSE /\ pc' = "loop"
            /\ UNCHANGED fault
    /\ UNCHANGED << num_concurrent, num_requests, rangeIdx, batch, tasks,
                    results, printed, summary, procs, startedIds, numStarted,
                    batches,
                    faulted,
                    completions, returned >>

\* One iteration of the for loop up to the await: take the next offset,
\* build the batch's coroutines and hand them to gather.
NextBatch ==
    /\ pc = "loop"
    /\ rangeIdx < Len(PyRange(0, num_requests, num_concurrent))
    /\ LET b == PyRange(0, num_requests, num_concurrent)[rangeIdx + 1]
           ts == MakeTasks(b, BatchSize(num_concurrent, num_requests, b))
       IN /\ batch' = b
          /\ tasks' = ts
          /\ batches' = Append(batches, [k \in 1..Len(ts) |-> ts[k].session_id])
    /\ rangeIdx' = rangeIdx + 1
    /\ pc' = "gather"
    /\ completions' = << >>
    /\ UNCHANGED << num_concurrent, num_requests, fault, results, printed,
                    summary, procs, startedIds, numStarted,
                    faulted,
                    returned >>

\* The event loop runs a task of the batch for the first time: run_command
\* takes start_time and awaits create_subprocess_shell.
TaskStart(k) ==
    /\ pc = "gather"
    /\ k \in 1..Len(tasks)
    /\ tasks[k].state = "pending"
    /\ tasks' = [tasks EXCEPT ![k].state = "spawning"]
    /\ startedIds' = startedIds \cup {tasks[k].session_id}
    /\ numStarted' = numStarted + 1
    /\ UNCHANGED << num_concurrent, num_requests, pc, fault, rangeIdx, batch,
                    results, printed, summary, procs, batches,
                    faulted,
                    completions, returned >>

\* create_subprocess_shell returns a process; the task awaits communicate().
SpawnOk(k) ==
    /\ pc = "gather"
    /\ k \in 1..Len(tasks)
    /\ tasks[k].state = "spawning"
    /\ tasks' = [tasks EXCEPT ![k].state = "communicating"]
    /\ procs' = procs \cup {tasks[k].session_id}
    /\ UNCHANGED << num_concurrent, num_requests, pc, fault, rangeIdx, batch,
                    results, printed, summary, startedIds, numStarted,
                    batches,
                    faulted,
                    completions, returned >>

\* SpawnFault without the try/except: the exception leaves run_command,
\* gather re-raises it in the coordinator and the run ends there.
SpawnFaultPropagates(k, d) ==
    /\ pc = "gather"
    /\ k \in 1..Len(tasks)
    /\ tasks[k].state = "spawning"
    /\ tasks' = [tasks EXCEPT ![k].state = "done"]
    /\ faulted' = faulted \cup {tasks[k].session_id}
    /\ pc' = "error"
    /\ fault' = "OSError"
    /\ LET c == Completion(NoExit, "",
                FaultResult(tasks[k].session_id, "launch fault", d))
       IN /\ completions' = Append(completions, c)
          /\ returned' = Recorded(returned, c)
    /\ UNCHANGED << num_concurrent, num_requests, rangeIdx, batch, results,
                    printed, summary, procs, startedIds, numStarted, batches >>

\* create_subprocess_shell raises: the except branch returns the fault.
SpawnFault(k, d) ==
    /\ pc = "gather"
    /\ k \in 1..Len(tasks)
    /\ tasks[k].state = "spawning"
    /\ tasks' = [tasks EXCEPT
                   ![k].state = "done",
                   ![k].result = FaultResult(tasks[k].session_id,
                                             "launch fault", d)]
    /\ faulted' = faulted \cup {tasks[k].session_id}
    /\ LET c == Completion(NoExit, "",
                FaultResult(tasks[k].session_id, "launch fault", d))
       IN /\ completions' = Append(completions, c)
          /\ returned' = Recorded(returned, c)
    /\ UNCHANGED << num_concurrent, num_requests, pc, fault, rangeIdx, batch,
                    results, printed, summary, procs, startedIds, numStarted,
                    batches >>

\* CommunicateOk with a retry: after a non-zero exit the invocation is
\* launched again instead of returning.
CommunicateOkRetries(k, b, d) ==
    /\ pc = "gather"
    /\ k \in 1..Len(tasks)
    /\ tasks[k].state = "communicating"
    /\ IF b.returncode # 0
       THEN /\ tasks' = [tasks EXCEPT ![k].state = "pending"]
            /\ UNCHANGED << completions, returned >>
       ELSE /\ tasks' = [tasks EXCEPT
                           ![k].state = "done",
                           ![k].result = OkResult(tasks[k].session_id, b, d)]
            /\ LET c == Completion(b.returncode, b.stderr,
                                    OkResult(tasks[k].session_id, b, d))
               IN /\ completions' = Append(completions, c)
                  /\ returned' = Recorded(returned, c)
    /\ procs' = procs \ {tasks[k].session_id}
    /\ UNCHANGED << num_concurrent, num_requests, pc, fault, rangeIdx, batch,
                    results, printed, summary, startedIds, numStarted,
                    batches, faulted >>

\* CommunicateOk with the task itself appending its result to the shared
\* list.
CommunicateOkAppends(k, b, d) ==
    /\ pc = "gather"
    /\ k \in 1..Len(tasks)
    /\ tasks[k].state = "communicating"
    /\ tasks' = [tasks EXCEPT
                   ![k].state = "done",
                   ![k].result = OkResult(tasks[k].session_id, b, d)]
    /\ results' = Append(results, OkResult(tasks[k].session_id, b, d))
    /\ LET c == Completion(b.returncode, b.stderr,
                            OkResult(tasks[k].session_id, b, d))
       IN /\ completions' = Append(completions, c)
          /\ returned' = Recorded(returned, c)
    /\ procs' = procs \ {tasks[k].session_id}
    /\ UNCHANGED << num_concurrent, num_requests, pc, fault, rangeIdx, batch,
                    printed, summary, startedIds, numStarted, batches,
                    faulted >>

\* The process terminates, communicate() returns its pipes and the task
\* returns the dictionary of the normal path.
CommunicateOk(k, b, d) ==
    /\ pc = "gather"
    /\ k \in 1..Len(tasks)
    /\ tasks[k].state = "communicating"
    /\ tasks' = [tasks EXCEPT
                   ![k].state = "done",
                   ![k].result = OkResult(tasks[k].session_id, b, d)]
    /\ procs' = procs \ {tasks[k].session_id}
    /\ LET c == Completion(b.returncode, b.stderr,
                            OkResult(tasks[k].session_id, b, d))
       IN /\ completions' = Append(completions, c)
          /\ returned' = Recorded(returned, c)
    /\ UNCHANGED << num_concurrent, num_requests, pc, fault, rangeIdx, batch,
                    results, printed, summary, startedIds, numStarted,
                    batches,
                    faulted >>

\* communicate() raises: the except branch returns the fault. Nothing waits
\* for or kills the process, which may or may not have exited by then.
CommunicateFault(k, d, alive) ==
    /\ pc = "gather"
    /\ k \in 1..Len(tasks)
    /\ tasks[k].state = "communicating"
    /\ tasks' = [tasks EXCEPT
                   ![k].state = "done",
                   ![k].result = FaultResult(tasks[k].session_id,
                                             "communicate fault", d)]
    /\ procs' = IF alive THEN procs ELSE procs \ {tasks[k].session_id}
    /\ faulted' = faulted \cup {tasks[k].session_id}
    /\ LET c == Completion(NoExit, "",
                FaultResult(tasks[k].session_id,
                            "communicate fault", d))
       IN /\ completions' = Append(completions, c)
          /\ returned' = Recorded(returned, c)
    /\ UNCHANGED << num_concurrent, num_requests, pc, fault, rangeIdx, batch,
                    results, printed, summary, startedIds, numStarted,
                    batches >>

\* A process whose task has already returned exits on its own.
ProcessExit(p) ==
    /\ p \in procs
    /\ \A k \in 1..Len(tasks) :
          tasks[k].session_id = p => tasks[k].state = "done"
    /\ procs' = procs \ {p}
    /\ UNCHANGED << num_concurrent, num_requests, pc, fault, rangeIdx, batch,
                    tasks, results, printed, summary, startedIds, numStarted,
                    batches,
                    faulted,
                    completions, returned >>

\* gather resumes the coordinator: results.extend(batch_results) and the
\* progress line.
GatherReturn ==
    /\ pc = "gather"
    /\ GatherDone(tasks)
    /\ results' = results \o GatherResults(tasks)
    /\ printed' = Append(printed, Progress(batch, num_concurrent, num_requests))
    /\ tasks' = << >>
    /\ pc' = "loop"
    /\ UNCHANGED << num_concurrent, num_requests, fault, rangeIdx, batch,
                    summary, procs, startedIds, numStarted, batches,
                    faulted,
                    completions, returned >>

\* The range is exhausted: the statistics are computed and printed and the
\* list is returned, unless the average divides by zero.
Aggregate ==
    /\ pc = "loop"
    /\ rangeIdx = Len(PyRange(0, num_requests, num_concurrent))
    /\ IF AggregationFaults(results)
       THEN /\ pc' = "error"
            /\ fault' = "ZeroDivisionError"
            /\ UNCHANGED summary
       ELSE /\ pc' = "done"
            /\ summary' = Summarise(results)
            /\ UNCHANGED fault
    /\ UNCHANGED << num_concurrent, num_requests, rangeIdx, batch, tasks,
                    results, printed, procs, startedIds, numStarted, batches,
                    faulted,
                    completions, returned >>

Next ==
    \/ EnterLoop
    \/ NextBatch
    \/ \E k \in DOMAIN tasks : TaskStart(k)
    \/ \E k \in DOMAIN tasks : SpawnOk(k)
    \/ \E k \in DOMAIN tasks, d \in Durations : SpawnFault(k, d)
    \/ \E k \in DOMAIN tasks, b \in ProcessBehaviours, d \in Durations :
          CommunicateOk(k, b, d)
    \/ \E k \in DOMAIN tasks, d \in Durations, alive \in BOOLEAN :
          CommunicateFault(k, d, alive)
    \/ \E p \in procs : ProcessExit(p)
    \/ GatherReturn
    \/ Aggregate

Spec == Init /\ [][Next]_vars

\* A smaller environment, for the properties that depend on how many
\* invocations fail and on whether the run goes on, not on what an
\* invocation measured or wrote: the command exits with 0 and nothing on
\* stderr or with 1 and an error text, or the invocation faults, and every
\* invocation takes one tick.
SampleBehaviours ==
    {b \in ProcessBehaviours : (b.returncode = 0) = (b.stderr = "")}

SampleDurations == {d \in Durations : \A e \in Durations : d <= e}

\* The steps task k of the batch can take once it has been created.
TaskStep(k) ==
    \/ TaskStart(k)
    \/ SpawnOk(k)
    \/ \E d \in SampleDurations : SpawnFault(k, d)
    \/ \E b \in SampleBehaviours, d \in SampleDurations : CommunicateOk(k, b, d)
    \/ \E d \in SampleDurations, alive \in BOOLEAN :
          CommunicateFault(k, d, alive)

SampleNext ==
    \/ EnterLoop
    \/ NextBatch
    \/ \E k \in DOMAIN tasks : TaskStep(k)
    \/ \E p \in procs : ProcessExit(p)
    \/ GatherReturn
    \/ Aggregate

\* The event loop runs every ready coroutine, and every external process
\* terminates or faults: the coordinator's steps and every task's steps are
\* taken once they stay possible.
Fairness ==
    /\ WF_vars(EnterLoop)
    /\ WF_vars(NextBatch)
    /\ WF_vars(GatherReturn)
    /\ WF_vars(Aggregate)
    /\ \A k \in 1..MaxConcurrent : WF_vars(TaskStep(k))

\* Every configuration of Init, run in the smaller environment by a fair
\* event loop.
FairSpec == Init /\ [][SampleNext]_vars /\ Fairness

\* Runs long enough to fail more often than the error samples can show.
SampleRequestCounts == SampleSize..SampleSize + 2

SampleInit ==
    /\ num_concurrent \in 1..MaxConcurrent
    /\ num_requests \in SampleRequestCounts
    /\ Entered

SampleSpec == SampleInit /\ [][SampleNext]_vars

----------------------------------------------------------------------------
\* Vocabulary of the properties below.

Terminal == {"done", "error"}

ValidConfig == num_concurrent >= 1 /\ num_requests >= 0

\* Invocations that have been started and have not yet completed.
InFlight ==
    {k \in 1..Len(tasks) : tasks[k].state \in {"spawning", "communicating"}}

\* Session ids whose invocation has returned its result.
CompletedIds ==
    {results[k].session_id : k \in 1..Len(results)}
        \cup {tasks[k].session_id : k \in {j \in 1..Len(tasks) :
                                              tasks[j].state = "done"}}

IdsOf(ids) == {ids[k] : k \in 1..Len(ids)}

\* The session ids of the batch gather is waiting for, if any.
GatherIds == [k \in 1..Len(tasks) |-> tasks[k].session_id]

----------------------------------------------------------------------------
\* C1: with concurrency_limit >= 1, in every reachable state the number of
\* invocations started and not yet completed is at most concurrency_limit.
C1_InFlightBounded ==
    num_concurrent >= 1 => Cardinality(InFlight) <= num_concurrent

\* A full batch of two or more, all of it in flight at once.
C1_Witness ==
    /\ num_concurrent >= 2
    /\ Cardinality(InFlight) = num_concurrent
    /\ procs # {}

\* C2: no invocation of batch N+1 is started before every invocation of
\* batch N has completed, whatever the completion order within batch N.
C2_BatchesSequential ==
    \A j \in 1..Len(batches) - 1 :
        (IdsOf(batches[j + 1]) \cap startedIds # {})
            => IdsOf(batches[j]) \subseteq CompletedIds

\* A second batch has started after a first batch of two.
C2_Witness ==
    /\ Len(batches) >= 2
    /\ Len(batches[1]) >= 2
    /\ IdsOf(batches[2]) \cap startedIds # {}

\* C3: for total_requests >= 0 and concurrency_limit >= 1, a run produces
\* exactly total_requests results.
C3_ResultCount ==
    (ValidConfig /\ pc \in Terminal) => Len(results) = num_requests

\* A finished run whose last batch is partial.
C3_Witness ==
    /\ pc = "done"
    /\ num_concurrent >= 2
    /\ num_requests % num_concurrent # 0
    /\ Len(results) = num_requests

\* The results recorded for session id x, in the collection or still held
\* by the batch's finished tasks.
ResultsOf(x) ==
    {results[k] : k \in {j \in 1..Len(results) : results[j].session_id = x}}
        \cup {tasks[k].result : k \in {j \in 1..Len(tasks) :
                 tasks[j].state = "done" /\ tasks[j].session_id = x}}

AllIds == UNION {IdsOf(batches[j]) : j \in 1..Len(batches)}

\* C4: an invocation's fault never aborts the batch or the run: its result
\* has success = false, no output and the fault's description as error; the
\* run is never put in the error state by it and can always go on; and a
\* finished run holds a result for every invocation of every batch, with a
\* summary, even when every invocation faulted.
C4_FaultsAreContained ==
    /\ \A x \in faulted :
          /\ ResultsOf(x) # {}
          /\ \A r \in ResultsOf(x) :
                /\ r.success = FALSE
                /\ r.output = None
                /\ r.error \in {"launch fault", "communicate fault"}
    /\ faulted # {} =>
          /\ pc # "error"
          /\ fault = None
          /\ pc = "done" \/ ENABLED Next
          /\ pc = "done" =>
                /\ \A x \in 0..num_requests - 1 : ResultsOf(x) # {}
                /\ summary # NoSummary
                /\ summary.failed >= Cardinality(faulted)

\* A run of several batches that finished although every invocation
\* faulted, on both fault paths.
C4_Witness ==
    /\ pc = "done"
    /\ num_requests >= 2
    /\ Len(batches) >= 2
    /\ faulted = 0..num_requests - 1
    /\ \E k \in 1..Len(results) : results[k].error = "launch fault"
    /\ \E k \in 1..Len(results) : results[k].error = "communicate fault"
    /\ summary.failed = num_requests

\* C5: a run with total_requests = 0 and concurrency_limit >= 1 starts no
\* invocation and ends with a summary of zero successes and zero failures,
\* without a divide-by-zero fault.
C5_EmptyRunHasZeroSummary ==
    (num_requests = 0 /\ num_concurrent >= 1 /\ pc \in Terminal) =>
        /\ numStarted = 0
        /\ pc = "done"
        /\ fault = None
        /\ summary.successful = 0
        /\ summary.failed = 0

\* C6: with concurrency_limit <= 0 the run ends in the error state before
\* any invocation is started, whatever total_requests is: nothing is ever
\* handed to run_command, the run never finishes normally, and until the
\* error is raised the run can still step.
C6_InvalidLimitFailsFirst ==
    num_concurrent <= 0 =>
        /\ numStarted = 0
        /\ startedIds = {}
        /\ tasks = << >>
        /\ results = << >>
        /\ procs = {}
        /\ pc # "done"
        /\ pc = "error" => fault \in {"ValueError", "ZeroDivisionError"}
        /\ pc # "error" => ENABLED Next

\* A run with a non-positive limit and requests to serve has ended in error.
C6_Witness ==
    /\ num_concurrent <= 0
    /\ num_requests > 0
    /\ pc = "error"
    /\ numStarted = 0

RECURSIVE SumSizes(_)
SumSizes(bs) == IF bs = << >> THEN 0 ELSE Len(Head(bs)) + SumSizes(Tail(bs))

\* C7: for total_requests >= 0 and concurrency_limit >= 1 the batch sizes
\* sum to total_requests, every batch but the last has size exactly
\* concurrency_limit, and the last has a size from 1 to concurrency_limit.
C7_BatchSizes ==
    ValidConfig =>
        /\ \A j \in 1..Len(batches) - 1 : Len(batches[j]) = num_concurrent
        /\ batches # << >> =>
              Len(batches[Len(batches)]) \in 1..num_concurrent
        /\ SumSizes(batches) <= num_requests
        /\ pc \in Terminal => SumSizes(batches) = num_requests

\* A finished run of a full batch followed by a smaller one.
C7_Witness ==
    /\ pc = "done"
    /\ Len(batches) = 2
    /\ Len(batches[1]) = num_concurrent
    /\ Len(batches[2]) < Len(batches[1])

RECURSIVE Flatten(_)
Flatten(bs) == IF bs = << >> THEN << >> ELSE Head(bs) \o Flatten(Tail(bs))

\* C8: session ids are global ordinals: the batch at offset gets offset,
\* offset+1, ..., offset+batch_size-1, so the ids handed to run_command are
\* pairwise distinct, increase from batch to batch and are exactly
\* {0, ..., total_requests-1} over a whole run.
C8_GlobalOrdinals ==
    ValidConfig =>
        /\ \A k \in 1..Len(tasks) : tasks[k].session_id = batch + (k - 1)
        /\ batches # << >> /\ pc = "gather" =>
              batches[Len(batches)] = [k \in 1..Len(tasks) |-> batch + (k - 1)]
        /\ Flatten(batches) = [k \in 1..SumSizes(batches) |-> k - 1]
        /\ startedIds \subseteq AllIds
        /\ numStarted = Cardinality(startedIds)
        /\ pc \in Terminal =>
              /\ AllIds = 0..num_requests - 1
              /\ startedIds = AllIds

\* A later batch of two, taken at a non-zero offset.
C8_Witness ==
    /\ pc = "gather"
    /\ batch > 0
    /\ Len(tasks) >= 1
    /\ Len(batches) >= 2
    /\ tasks[1].session_id = batch
    /\ tasks[1].state # "pending"

\* How often session id x occurs in the collection.
Occurrences(x) ==
    Cardinality({k \in 1..Len(results) : results[k].session_id = x})

\* Tasks of the current batch that have begun to run.
StartedOfBatch == {k \in 1..Len(tasks) : tasks[k].state # "pending"}

\* C9 as stated: every result of a batch is in the collection exactly once
\* and the length of the collection always equals the number of invocations
\* started.
C9_LengthAlwaysEqualsStarted ==
    /\ \A x \in AllIds \ IdsOf(GatherIds) : Occurrences(x) = 1
    /\ Len(results) = numStarted

\* C9 amended: every result of a merged batch is in the collection exactly
\* once; whenever no batch is in flight the length of the collection equals
\* the number of invocations started, and while a batch is in flight it
\* falls short of it by the invocations of that batch already started.
C9_LengthEqualsStartedAtBarrier ==
    /\ \A x \in AllIds \ IdsOf(GatherIds) : Occurrences(x) = 1
    /\ \A x \in IdsOf(GatherIds) : Occurrences(x) = 0
    /\ pc # "gather" => Len(results) = numStarted
    /\ pc = "gather" =>
          Len(results) = numStarted - Cardinality(StartedOfBatch)

\* Between two batches, with the first batch of two merged.
C9_Witness ==
    /\ pc = "loop"
    /\ Len(results) >= 2
    /\ Len(results) = numStarted
    /\ Len(results) < num_requests

\* C10: for total_requests > 0 the successes and the failures of the
\* summary add up to total_requests, whatever mix of zero exits, non-zero
\* exits and faults occurred.
C10_CountsAddUp ==
    (num_requests > 0 /\ pc = "done") =>
        summary.successful + summary.failed = num_requests

\* A finished run with a zero exit that wrote to stderr, a non-zero exit
\* that wrote nothing, and a fault.
C10_Witness ==
    /\ pc = "done"
    /\ num_requests > 0
    /\ \E k \in 1..Len(results) :
          results[k].success /\ results[k].error # None
    /\ \E k \in 1..Len(results) :
          ~results[k].success /\ results[k].error = None
    /\ faulted # {}
    /\ summary.successful + summary.failed = num_requests

\* C11: at any instant at most concurrency_limit processes spawned by the
\* harness are alive, also after an invocation ended on the fault path with
\* its process created and the next batch was started.
C11_LiveProcessesBounded ==
    num_concurrent >= 1 => Cardinality(procs) <= num_concurrent

\* While an invocation of the batch has not returned, the coordinator is
\* still inside gather for that batch, which is the last batch started, and
\* has neither merged nor reported it.
BarrierClosed ==
    (\E k \in 1..Len(tasks) : tasks[k].state # "done") =>
        /\ pc = "gather"
        /\ batches[Len(batches)] = GatherIds
        /\ Len(printed) = Len(batches) - 1
        /\ \A k \in 1..Len(results) :
              results[k].session_id \notin IdsOf(GatherIds)

\* C12: if every external process terminates or faults, every run with
\* total_requests >= 1 and concurrency_limit >= 1 finishes all its batches
\* and reports its summary; and as long as one invocation of a batch has not
\* returned, the barrier stays closed and no later batch is started.
C12_TerminatesUnlessStuck ==
    /\ []BarrierClosed
    /\ (num_requests >= 1 /\ num_concurrent >= 1) ~>
           (pc = "done" /\ summary # NoSummary
               /\ Len(results) = num_requests)

\* A run of two batches has ended with its summary.
C12_Witness ==
    /\ pc = "done"
    /\ num_requests >= 2
    /\ Len(batches) >= 2
    /\ summary # NoSummary

\* Every return of the run so far.
Returned ==
    UNION {{returned[x][k] : k \in 1..Len(returned[x])} : x \in DOMAIN returned}

\* The outcomes of the run as a collection without order: the session id
\* and the ordinal of the return only tell the outcomes apart.
Outcomes ==
    UNION {{<<x, k, returned[x][k].result>> : k \in 1..Len(returned[x])} :
              x \in DOMAIN returned}

RECURSIVE TotalDuration(_)
TotalDuration(os) ==
    IF os = {} THEN 0
    ELSE LET o == CHOOSE x \in os : TRUE
         IN o[3].duration + TotalDuration(os \ {o})

\* Two invocations of one batch returned in the reverse of their order in
\* the batch.
ReturnedOutOfOrder(i, j) ==
    /\ i < j
    /\ completions[i].result.session_id > completions[j].result.session_id

\* C13: the success count, the failure count and the minimum, average and
\* maximum duration of the summary depend only on the per-invocation
\* outcomes, not on the order in which the invocations of a batch returned:
\* they are those of the unordered collection of outcomes.
C13_AggregatesIgnoreCompletionOrder ==
    pc = "done" =>
        /\ summary.successful = Cardinality({o \in Outcomes : o[3].success})
        /\ summary.failed = Cardinality({o \in Outcomes : ~o[3].success})
        /\ summary.count = Cardinality(Outcomes)
        /\ summary.sum_duration = TotalDuration(Outcomes)
        /\ \E o \in Outcomes : summary.min_duration = o[3].duration
        /\ \A o \in Outcomes : summary.min_duration <= o[3].duration
        /\ \E o \in Outcomes : summary.max_duration = o[3].duration
        /\ \A o \in Outcomes : summary.max_duration >= o[3].duration

\* A finished run in whose last batch two invocations with different
\* durations and different success flags returned out of order.
C13_Witness ==
    /\ pc = "done"
    /\ \E i, j \in 1..Len(completions) :
          /\ ReturnedOutOfOrder(i, j)
          /\ completions[i].result.duration # completions[j].result.duration
          /\ completions[i].result.success # completions[j].result.success

\* C14: for total_requests > 0 the duration statistics, taken over all
\* results whatever their success flag, satisfy
\* min_duration <= avg_duration <= max_duration, avg_duration being
\* sum_duration / count.
C14_MinAvgMax ==
    (num_requests > 0 /\ pc = "done") =>
        /\ summary.count > 0
        /\ summary.min_duration * summary.count <= summary.sum_duration
        /\ summary.sum_duration <= summary.max_duration * summary.count

\* A finished run whose average lies strictly between the minimum and the
\* maximum, the maximum being the duration of a failed invocation only.
C14_Witness ==
    /\ pc = "done"
    /\ summary.min_duration * summary.count < summary.sum_duration
    /\ summary.sum_duration < summary.max_duration * summary.count
    /\ \A k \in 1..Len(results) :
          results[k].duration = summary.max_duration => ~results[k].success

\* C15: after each batch, and only once all its invocations have returned,
\* the scheduler reports min(offset + concurrency_limit, total_requests);
\* that number is the number of results in the collection at that moment
\* and is total_requests after the last batch.
C15_ProgressReports ==
    ValidConfig =>
        /\ Len(printed) =
              IF pc = "gather" THEN Len(batches) - 1 ELSE Len(batches)
        /\ \A j \in 1..Len(printed) :
              /\ printed[j] = Min(batches[j][1] + num_concurrent, num_requests)
              /\ printed[j] = SumSizes(SubSeq(batches, 1, j))
        /\ (pc # "gather" /\ printed # << >>) =>
              printed[Len(printed)] = Len(results)
        /\ (pc \in Terminal /\ printed # << >>) =>
              printed[Len(printed)] = num_requests

\* A finished run that reported a full batch and then a partial one.
C15_Witness ==
    /\ pc = "done"
    /\ Len(printed) = 2
    /\ printed[1] = num_concurrent
    /\ printed[2] = num_requests
    /\ printed[2] < 2 * num_concurrent

\* How often session id x has returned.
Returns(x) == IF x \in DOMAIN returned THEN Len(returned[x]) ELSE 0

\* C16: a non-zero exit is recorded as a failed result and is not retried:
\* every session id is launched exactly once whatever its outcome, so the
\* launches of a whole run number total_requests.
C16_NoRetry ==
    /\ numStarted = Cardinality(startedIds)
    /\ \A x \in startedIds : Returns(x) <= 1
    /\ \A c \in Returned :
          c.returncode \notin {0, NoExit} =>
              /\ c.result.success = FALSE
              /\ c.result \in ResultsOf(c.result.session_id)
    /\ (ValidConfig /\ pc \in Terminal) =>
          /\ numStarted = num_requests
          /\ \A x \in 0..num_requests - 1 : x \in startedIds /\ Returns(x) = 1

\* A finished run of several invocations, one of which exited non-zero.
C16_Witness ==
    /\ pc = "done"
    /\ num_requests >= 2
    /\ numStarted = num_requests
    /\ \E c \in Returned : c.returncode = 1

FaultTexts == {"launch fault", "communicate fault"}

\* C17 as stated: the error field is present only for a failed invocation,
\* so a result with success = true carries no error text.
C17_ErrorOnlyOnFailure ==
    \A c \in Returned : c.result.error # None => ~c.result.success

\* C17 amended: the error field is the captured standard error whenever the
\* process wrote any, whatever its exit status, or the description of the
\* fault; so a result with success = true carries error text exactly when
\* the process exited with zero after writing to standard error, and a
\* failed result has none when the process wrote nothing to it.
C17_ErrorIsStderrOrFault ==
    \A c \in Returned :
        IF c.returncode = NoExit
        THEN c.result.error \in FaultTexts /\ ~c.result.success
        ELSE /\ c.result.success = (c.returncode = 0)
             /\ c.result.error = IF c.stderr # "" THEN c.stderr ELSE None

\* A finished run with a successful result that carries error text.
C17_Witness ==
    /\ pc = "done"
    /\ \E k \in 1..Len(results) :
          results[k].success /\ results[k].error = "warn"

\* The failed results of the collection.
FailedResults ==
    {results[k] : k \in {j \in 1..Len(results) : ~results[j].success}}

\* C18: the failure sample is the first min(3, number of failures) failed
\* results in collection order, that is the failures with the smallest
\* session ids; it is shown only when an invocation failed; and every failed
\* result stays in the returned collection.
C18_FirstFailuresSampled ==
    pc = "done" =>
        /\ Len(summary.samples) = Min(SampleSize, Cardinality(FailedResults))
        /\ \A i \in 1..Len(summary.samples) :
              /\ summary.samples[i] \in FailedResults
              /\ Cardinality({r \in FailedResults :
                     r.session_id < summary.samples[i].session_id}) = i - 1
        /\ (summary.samples # << >>) = (summary.failed >= 1)
        /\ \A c \in Returned : ~c.result.success => c.result \in FailedResults
        /\ Cardinality(FailedResults) = summary.failed

\* A finished run with more failures than the sample holds.
C18_Witness ==
    /\ pc = "done"
    /\ summary.failed > SampleSize
    /\ Len(summary.samples) = SampleSize
    /\ results[1].success

\* C19: the collection and the progress reports change only at the batch
\* barrier: a step that changes either is the coordinator's step out of
\* gather, taken when every invocation of the batch has returned, and it
\* merges the whole batch at once; the return of a single invocation
\* changes neither.
C19_OnlyBarrierMerges ==
    [][ /\ (results' # results \/ printed' # printed) =>
              /\ pc = "gather"
              /\ pc' = "loop"
              /\ \A k \in 1..Len(tasks) : tasks[k].state = "done"
              /\ Len(results') = Len(results) + Len(tasks)
              /\ \A k \in 1..Len(tasks) :
                    results'[Len(results) + k] = tasks[k].result
              /\ Len(printed') = Len(printed) + 1
        /\ (returned' # returned) =>
              (results' = results /\ printed' = printed) ]_vars

\* In a later batch an invocation has returned while the collection still
\* holds the earlier batches only.
C19_Witness ==
    /\ pc = "gather"
    /\ batch > 0
    /\ Len(results) = batch
    /\ completions # << >>
    /\ \E k \in 1..Len(tasks) : tasks[k].state = "done"

\* C20: after a run with concurrency_limit >= 1 the returned collection is
\* ordered by session id, the element at index i having session id i,
\* whatever the order in which the invocations of a batch returned.
C20_CollectionOrderedById ==
    (num_concurrent >= 1 /\ pc = "done") =>
        /\ Len(results) = num_requests
        /\ \A i \in 1..Len(results) : results[i].session_id = i - 1

\* A finished run in whose last batch invocations returned out of order.
C20_Witness ==
    /\ pc = "done"
    /\ \E i, j \in 1..Len(completions) : ReturnedOutOfOrder(i, j)
    /\ \A i \in 1..Len(results) : results[i].session_id = i - 1

====
